---- MODULE Spec2Model ----
(***************************************************************************)
(* Model of functions/chroma_setup.py (class ChromaVectorDatabase): the    *)
(* tokenizer wrapper, the text normalizer, the sentence splitter, the      *)
(* chunk builder and the populate/clear lifecycle around them.             *)
(*                                                                         *)
(* Two levels of text are used.                                            *)
(*  - Character level (TextSpec): a string is a sequence of               *)
(*    one-character strings and the regular expressions of _clean_text and *)
(*    _improved_sentence_split are computed character by character.        *)
(*  - Measure level (Spec): a sentence is the record of the two things the *)
(*    chunk builder ever reads of it, its character length (len) and its   *)
(*    cl100k_base token count (vtok); a chunk is the sequence of sentence  *)
(*    positions that ' '.join puts together.                               *)
(***************************************************************************)
EXTENDS Integers, Sequences, FiniteSets, TLC

VARIABLES
    \* ---- object fields (ChromaVectorDatabase.__init__) ----
    tokenizer,              \* self.tokenizer: Loaded or None
    MAX_TOKENS_PER_CHUNK,   \* self.MAX_TOKENS_PER_CHUNK
    OVERLAP_TOKENS,         \* self.OVERLAP_TOKENS
    collection,             \* number of documents held by self.collection
    \* ---- process history ----
    loadLog,                \* outcome of every tiktoken.get_encoding call so far
    constructed,            \* calls of ChromaVectorDatabase.__init__ so far
    results,                \* one record per finished _smart_chunk_text call
    \* ---- populate_vector_database / _smart_chunk_text locals ----
    pc,                     \* "idle", "scan", "chunked", "adding", "failed",
                            \* "returned"
    content,                \* file_data['content'], as its sentence measures
    sentences,              \* sentences (line 137)
    idx,                    \* position of the for loop of line 146
    current_sentences,      \* current_sentences (positions in sentences)
    current_tokens,         \* current_tokens
    chunks,                 \* chunks / valid_chunks
    metadatas,              \* metadatas built by populate_vector_database
    batch_i,                \* i of _add_documents_in_batches
    total_added,            \* total_added of _add_documents_in_batches
    \* ---- character level ----
    raw,                    \* the string handed to the text function
    cleaned,                \* result of the latest _clean_text
    passes,                 \* number of _clean_text applications so far
    split_in,               \* the text handed to _improved_sentence_split
    split_out,              \* its result
    split_done,             \* whether the split has run
    \* ---- _add_documents_in_batches called on its own ----
    documents,              \* documents (with metadatas and ids in step)
    batchSize,              \* the batch_size argument
    added_log,              \* the calls of self.collection.add so far
    reported                \* what lines 268-272 print

objVars == <<tokenizer, MAX_TOKENS_PER_CHUNK, OVERLAP_TOKENS, collection>>
histVars == <<loadLog, constructed, results>>
runVars == <<pc, content, sentences, idx, current_sentences, current_tokens,
             chunks, metadatas, batch_i, total_added>>
textVars == <<raw, cleaned, passes, split_in, split_out, split_done>>
batchVars == <<documents, batchSize, added_log, reported>>
vars == <<objVars, histVars, runVars, textVars, batchVars>>

(***************************************************************************)
(* Bounds of the model.                                                    *)
(***************************************************************************)
MaxSentences == 3
MaxRuns == 2

(***************************************************************************)
(* Tokenizer.                                                              *)
(***************************************************************************)
Loaded == "cl100k_base"
None == "None"

\* Outcomes of the try/except around tiktoken.get_encoding.
LoadOutcomes == {Loaded, None}

\* _count_tokens of a text given by its measures.  With the vocabulary the
\* count is the text's cl100k_base token count; without it, len(text) // 4.
count_tokens(t) ==
    IF tokenizer # None THEN t.vtok ELSE t.len \div 4

(***************************************************************************)
(* Measure-level texts.                                                    *)
(***************************************************************************)
\* A sentence as the splitter returns it: non-empty, trimmed.  len is its
\* character count, vtok its cl100k_base token count (at least 1 for a
\* non-empty string).
Sentence(l, v) == [len |-> l, vtok |-> v]

SentenceKinds ==
    { Sentence(3, 2),        \* e.g. "Hi."  : 0 tokens under len // 4
      Sentence(200, 50),
      Sentence(400, 100),
      Sentence(1600, 400),
      Sentence(1604, 401) }  \* oversized under 400 in both modes

SeqsUpTo(S, n) == UNION { [1..k -> S] : k \in 0..n }

\* Five sentences of 100 tokens each.
FiveHundreds == [k \in 1..5 |-> Sentence(400, 100)]

Documents == SeqsUpTo(SentenceKinds, MaxSentences) \cup {FiveHundreds}

\* (MAX_TOKENS_PER_CHUNK, OVERLAP_TOKENS): the values __init__ assigns, and
\* the settings of the scenarios (250/100, and overlap 0).
Configs == { <<400, 50>>, <<250, 100>>, <<400, 0>> }

RECURSIVE SumLen(_, _)
SumLen(ss, buf) ==
    IF buf = <<>> THEN 0 ELSE ss[Head(buf)].len + SumLen(ss, Tail(buf))

RECURSIVE SumVTok(_, _)
SumVTok(ss, buf) ==
    IF buf = <<>> THEN 0 ELSE ss[Head(buf)].vtok + SumVTok(ss, Tail(buf))

\* ' '.join(buf): the sentences at positions buf with one space between
\* neighbours.  The space is taken into the token that starts the next word,
\* as cl100k_base's pre-tokenizer does, so token counts add up.
Join(ss, buf) ==
    [len  |-> IF buf = <<>> THEN 0 ELSE SumLen(ss, buf) + Len(buf) - 1,
     vtok |-> SumVTok(ss, buf)]

(***************************************************************************)
(* _smart_chunk_text: the tests of the loop body.                          *)
(***************************************************************************)
\* Variant: the bound is off by one.
OversizedLax(sentence_tokens) == sentence_tokens > MAX_TOKENS_PER_CHUNK + 1

\* line 150
Oversized(sentence_tokens) == sentence_tokens > MAX_TOKENS_PER_CHUNK

\* line 155
MustFinalize(sentence_tokens) ==
    /\ current_tokens + sentence_tokens > MAX_TOKENS_PER_CHUNK
    /\ current_sentences # <<>>

\* Variant: strict comparison.
OverlapFitsStrict(overlap_tokens, sent_tokens) ==
    overlap_tokens + sent_tokens < OVERLAP_TOKENS

\* line 167
OverlapFits(overlap_tokens, sent_tokens) ==
    overlap_tokens + sent_tokens <= OVERLAP_TOKENS

\* Variant: a sentence that does not fit is passed over and the walk goes on
\* (no break).
RECURSIVE OverlapWalkPassingOver(_, _, _, _, _)
OverlapWalkPassingOver(ss, buf, k, acc, tok) ==
    IF k = 0
    THEN [sentences |-> acc, tokens |-> tok]
    ELSE LET sent_tokens == count_tokens(ss[buf[k]])
         IN  IF OverlapFits(tok, sent_tokens)
             THEN OverlapWalkPassingOver(ss, buf, k - 1, <<buf[k]>> \o acc,
                                         tok + sent_tokens)
             ELSE OverlapWalkPassingOver(ss, buf, k - 1, acc, tok)

\* lines 161-171: walk buf from its end; k is the position looked at,
\* acc the overlap_sentences collected so far, tok their overlap_tokens.
RECURSIVE OverlapWalk(_, _, _, _, _)
OverlapWalk(ss, buf, k, acc, tok) ==
    IF k = 0
    THEN [sentences |-> acc, tokens |-> tok]
    ELSE LET sent_tokens == count_tokens(ss[buf[k]])
         IN  IF OverlapFits(tok, sent_tokens)
             THEN OverlapWalk(ss, buf, k - 1, <<buf[k]>> \o acc, tok + sent_tokens)
             ELSE [sentences |-> acc, tokens |-> tok]

OverlapSeed(ss, buf) == OverlapWalk(ss, buf, Len(buf), <<>>, 0)

\* Variant: the overlap is dropped.
ReseedBufferNoSeed(overlap_sentences, i) == <<i>>

\* line 174
ReseedBuffer(overlap_sentences, i) == overlap_sentences \o <<i>>

\* line 187: chunk.strip() is non-empty
ValidChunks(ss, cs) == SelectSeq(cs, LAMBDA c : Join(ss, c).len > 0)

(***************************************************************************)
(* Lifecycle actions.                                                      *)
(***************************************************************************)
TextIdle ==
    /\ raw = <<>> /\ cleaned = <<>> /\ passes = 0
    /\ split_in = <<>> /\ split_out = <<>> /\ split_done = FALSE

BatchIdle ==
    /\ documents = <<>> /\ batchSize = 0
    /\ added_log = <<>> /\ reported = <<>>

\* No call of populate_vector_database is active: its locals and those of
\* the functions it calls do not exist.
NoLocals ==
    /\ sentences = <<>>
    /\ idx = 0
    /\ current_sentences = <<>>
    /\ current_tokens = 0
    /\ chunks = <<>>
    /\ metadatas = <<>>
    /\ batch_i = 0
    /\ total_added = 0

\* The return of populate_vector_database discards the locals.
DiscardLocals ==
    /\ sentences' = <<>>
    /\ idx' = 0
    /\ current_sentences' = <<>>
    /\ current_tokens' = 0
    /\ chunks' = <<>>
    /\ metadatas' = <<>>
    /\ batch_i' = 0
    /\ total_added' = 0

Init ==
    /\ tokenizer \in LoadOutcomes
    /\ \E cfg \in Configs :
          /\ MAX_TOKENS_PER_CHUNK = cfg[1]
          /\ OVERLAP_TOKENS = cfg[2]
    /\ collection = 0
    /\ loadLog = <<tokenizer>>
    /\ constructed = 1
    /\ results = <<>>
    /\ pc = "idle"
    /\ content \in Documents
    /\ NoLocals
    /\ TextIdle
    /\ BatchIdle

\* __init__ (lines 21-42) of a further object on the same database path.
\* The chunking parameters are assigned the same values again; the
\* vocabulary load is attempted again; _initialize_chroma_client either
\* opens the existing collection or raises (the process then ends).
Construct ==
    /\ pc = "idle"
    /\ constructed <= Len(results)
    /\ tokenizer' \in LoadOutcomes
    /\ loadLog' = Append(loadLog, tokenizer')
    /\ constructed' = constructed + 1
    /\ \E client_ok \in BOOLEAN :
          pc' = IF client_ok THEN pc ELSE "failed"
    /\ UNCHANGED <<MAX_TOKENS_PER_CHUNK, OVERLAP_TOKENS, collection, results>>
    /\ UNCHANGED <<content, sentences, idx, current_sentences, current_tokens,
                   chunks, metadatas, batch_i, total_added>>
    /\ UNCHANGED <<textVars, batchVars>>

\* Variant: clearing runs the whole of __init__ again instead of
\* _initialize_chroma_client.
ClearVectorDatabaseReload ==
    /\ pc = "idle"
    /\ tokenizer' \in LoadOutcomes
    /\ loadLog' = Append(loadLog, tokenizer')
    /\ collection' = 0
    /\ UNCHANGED <<MAX_TOKENS_PER_CHUNK, OVERLAP_TOKENS, constructed, results>>
    /\ UNCHANGED runVars
    /\ UNCHANGED <<textVars, batchVars>>

\* clear_vector_database (lines 60-69)
ClearVectorDatabase ==
    /\ pc = "idle"
    /\ \E ok \in BOOLEAN :
          IF ok
          THEN /\ collection' = 0
               /\ pc' = pc
          ELSE /\ collection' = collection
               /\ pc' = "failed"
    /\ UNCHANGED <<tokenizer, MAX_TOKENS_PER_CHUNK, OVERLAP_TOKENS>>
    /\ UNCHANGED histVars
    /\ UNCHANGED <<content, sentences, idx, current_sentences, current_tokens,
                   chunks, metadatas, batch_i, total_added>>
    /\ UNCHANGED <<textVars, batchVars>>

(***************************************************************************)
(* populate_vector_database and _smart_chunk_text.                         *)
(***************************************************************************)
\* Variant: the chunks list is shared between calls (it starts as the list
\* the previous call returned).
SmartChunkBeginStale ==
    /\ pc = "idle"
    /\ Len(results) < MaxRuns
    /\ sentences' = content
    /\ chunks' = IF results = <<>> THEN <<>> ELSE results[Len(results)].chunks
    /\ current_sentences' = <<>>
    /\ current_tokens' = 0
    /\ idx' = 1
    /\ metadatas' = <<>>
    /\ batch_i' = 0
    /\ total_added' = 0
    /\ IF content = <<>>
       THEN /\ pc' = "chunked"
            /\ results' = Append(results, [tokenizer |-> tokenizer, chunks |-> <<>>])
       ELSE /\ pc' = "scan"
            /\ results' = results
    /\ UNCHANGED <<content, loadLog, constructed>>
    /\ UNCHANGED objVars
    /\ UNCHANGED <<textVars, batchVars>>

\* populate_vector_database up to the call of line 212, and
\* _smart_chunk_text lines 136-144.
SmartChunkBegin ==
    /\ pc = "idle"
    /\ Len(results) < MaxRuns
    /\ sentences' = content
    /\ chunks' = <<>>
    /\ current_sentences' = <<>>
    /\ current_tokens' = 0
    /\ idx' = 1
    /\ metadatas' = <<>>
    /\ batch_i' = 0
    /\ total_added' = 0
    /\ IF content = <<>>
       THEN /\ pc' = "chunked"
            /\ results' = Append(results, [tokenizer |-> tokenizer, chunks |-> <<>>])
       ELSE /\ pc' = "scan"
            /\ results' = results
    /\ UNCHANGED <<content, loadLog, constructed>>
    /\ UNCHANGED objVars
    /\ UNCHANGED <<textVars, batchVars>>

\* lines 147-152
SkipSentence ==
    /\ pc = "scan"
    /\ idx <= Len(sentences)
    /\ Oversized(count_tokens(sentences[idx]))
    /\ idx' = idx + 1
    /\ UNCHANGED <<pc, content, sentences, current_sentences, current_tokens,
                   chunks, metadatas, batch_i, total_added>>
    /\ UNCHANGED <<objVars, histVars, textVars, batchVars>>

\* Variant: the running sum restarts from the triggering sentence alone
\* (overlap_tokens left out of line 175).
FinalizeAndReseedSumRestart ==
    /\ pc = "scan"
    /\ idx <= Len(sentences)
    /\ LET sentence_tokens == count_tokens(sentences[idx])
           seed == OverlapSeed(sentences, current_sentences)
       IN  /\ ~Oversized(sentence_tokens)
           /\ MustFinalize(sentence_tokens)
           /\ chunks' = Append(chunks, current_sentences)
           /\ current_sentences' = ReseedBuffer(seed.sentences, idx)
           /\ current_tokens' = sentence_tokens
    /\ idx' = idx + 1
    /\ UNCHANGED <<pc, content, sentences, metadatas, batch_i, total_added>>
    /\ UNCHANGED <<objVars, histVars, textVars, batchVars>>

\* lines 155-175
FinalizeAndReseed ==
    /\ pc = "scan"
    /\ idx <= Len(sentences)
    /\ LET sentence_tokens == count_tokens(sentences[idx])
           seed == OverlapSeed(sentences, current_sentences)
       IN  /\ ~Oversized(sentence_tokens)
           /\ MustFinalize(sentence_tokens)
           /\ chunks' = Append(chunks, current_sentences)
           /\ current_sentences' = ReseedBuffer(seed.sentences, idx)
           /\ current_tokens' = seed.tokens + sentence_tokens
    /\ idx' = idx + 1
    /\ UNCHANGED <<pc, content, sentences, metadatas, batch_i, total_added>>
    /\ UNCHANGED <<objVars, histVars, textVars, batchVars>>

\* lines 176-179
AppendSentence ==
    /\ pc = "scan"
    /\ idx <= Len(sentences)
    /\ LET sentence_tokens == count_tokens(sentences[idx])
       IN  /\ ~Oversized(sentence_tokens)
           /\ ~MustFinalize(sentence_tokens)
           /\ current_sentences' = Append(current_sentences, idx)
           /\ current_tokens' = current_tokens + sentence_tokens
    /\ idx' = idx + 1
    /\ UNCHANGED <<pc, content, sentences, chunks, metadatas, batch_i, total_added>>
    /\ UNCHANGED <<objVars, histVars, textVars, batchVars>>

\* Variant: the buffer left at the end of the input is not emitted (lines
\* 182-184 left out).
ReturnChunksWithoutLast ==
    /\ pc = "scan"
    /\ idx > Len(sentences)
    /\ LET valid_chunks == ValidChunks(sentences, chunks)
       IN  /\ chunks' = valid_chunks
           /\ results' = Append(results, [tokenizer |-> tokenizer,
                                          chunks |-> valid_chunks])
    /\ pc' = "chunked"
    /\ UNCHANGED <<content, sentences, idx, current_sentences, current_tokens,
                   metadatas, batch_i, total_added>>
    /\ UNCHANGED <<loadLog, constructed>>
    /\ UNCHANGED <<objVars, textVars, batchVars>>

\* lines 181-193
ReturnChunks ==
    /\ pc = "scan"
    /\ idx > Len(sentences)
    /\ LET all == IF current_sentences # <<>>
                  THEN Append(chunks, current_sentences)
                  ELSE chunks
           valid_chunks == ValidChunks(sentences, all)
       IN  /\ chunks' = valid_chunks
           /\ results' = Append(results, [tokenizer |-> tokenizer,
                                          chunks |-> valid_chunks])
    /\ pc' = "chunked"
    /\ UNCHANGED <<content, sentences, idx, current_sentences, current_tokens,
                   metadatas, batch_i, total_added>>
    /\ UNCHANGED <<loadLog, constructed>>
    /\ UNCHANGED <<objVars, textVars, batchVars>>

\* line 242: batch_size
batch_size == 100

\* populate_vector_database lines 213-240: with no chunk the file is
\* skipped and the function returns (line 240); otherwise the documents and
\* their metadata are built and _add_documents_in_batches is entered.
BuildDocuments ==
    /\ pc = "chunked"
    /\ IF chunks = <<>>
       THEN /\ pc' = "idle"
            /\ DiscardLocals
       ELSE /\ pc' = "adding"
            /\ metadatas' =
                  [k \in 1..Len(chunks) |->
                      [chunk_id    |-> k - 1,
                       token_count |-> count_tokens(Join(sentences, chunks[k])),
                       char_length |-> Join(sentences, chunks[k]).len]]
            /\ batch_i' = 0
            /\ total_added' = 0
            /\ UNCHANGED <<sentences, idx, current_sentences, current_tokens, chunks>>
    /\ UNCHANGED content
    /\ UNCHANGED <<objVars, histVars, textVars, batchVars>>

\* _add_documents_in_batches, one turn of the loop of line 249: the batch
\* is added or collection.add raises; after the last batch the function and
\* populate_vector_database return.
AddBatch ==
    /\ pc = "adding"
    /\ LET n == IF Len(metadatas) - batch_i < batch_size
                THEN Len(metadatas) - batch_i
                ELSE batch_size
           last == batch_i + batch_size >= Len(metadatas)
       IN  \E added \in BOOLEAN :
              /\ collection' = IF added THEN collection + n ELSE collection
              /\ IF last
                 THEN /\ pc' = "idle"
                      /\ DiscardLocals
                 ELSE /\ pc' = "adding"
                      /\ total_added' = IF added THEN total_added + n ELSE total_added
                      /\ batch_i' = batch_i + batch_size
                      /\ UNCHANGED <<sentences, idx, current_sentences,
                                     current_tokens, chunks, metadatas>>
    /\ UNCHANGED content
    /\ UNCHANGED <<tokenizer, MAX_TOKENS_PER_CHUNK, OVERLAP_TOKENS>>
    /\ UNCHANGED <<histVars, textVars, batchVars>>

Next ==
    \/ Construct
    \/ ClearVectorDatabase
    \/ SmartChunkBegin
    \/ SkipSentence
    \/ FinalizeAndReseed
    \/ AppendSentence
    \/ ReturnChunks
    \/ BuildDocuments
    \/ AddBatch

Spec == Init /\ [][Next]_vars

(***************************************************************************)
(* Character level: strings as sequences of one-character strings.         *)
(***************************************************************************)
\* The three characters of a mis-decoded curly apostrophe (U+00E2, U+20AC,
\* U+2122) and the third character of a mis-decoded opening quote (U+0153),
\* written as ASCII names.
ACirc == "U+00E2"
Euro == "U+20AC"
TradeMark == "U+2122"
OELig == "U+0153"

\* \s
Whitespace == {" ", "\n", "\t"}
\* \d
Digits == {"0", "1", "2", "3", "4", "5", "6", "7", "8", "9"}

UpperLetters ==
    <<"A", "B", "C", "D", "E", "F", "G", "H", "I", "J", "K", "L", "M",
      "N", "O", "P", "Q", "R", "S", "T", "U", "V", "W", "X", "Y", "Z">>
LowerLetters ==
    <<"a", "b", "c", "d", "e", "f", "g", "h", "i", "j", "k", "l", "m",
      "n", "o", "p", "q", "r", "s", "t", "u", "v", "w", "x", "y", "z">>

\* [A-Z]
UpperAZ == {UpperLetters[k] : k \in 1..26}

\* Case folding of re.IGNORECASE on the characters of the model.
Lower(c) ==
    IF c \in UpperAZ
    THEN LowerLetters[CHOOSE k \in 1..26 : UpperLetters[k] = c]
    ELSE c

\* \w
IsWord(c) ==
    \/ c \in UpperAZ
    \/ c \in {LowerLetters[k] : k \in 1..26}
    \/ c \in Digits
    \/ c \in {"_", ACirc, OELig}

\* The least position in S (0 if S is empty): a regular expression is matched
\* at the leftmost position it can be.
FirstAt(S) ==
    IF S = {} THEN 0 ELSE CHOOSE j \in S : \A k \in S : j <= k

\* The first position at or after i whose character is not in S.
RunEnd(t, i, S) ==
    LET j == FirstAt({k \in i..Len(t) : t[k] \notin S})
    IN  IF j # 0 THEN j ELSE IF i > Len(t) THEN i ELSE Len(t) + 1

\* The literal pat occurs in t at position i.
MatchAt(t, i, pat) ==
    /\ i + Len(pat) - 1 <= Len(t)
    /\ \A k \in 1..Len(pat) : t[i + k - 1] = pat[k]

\* str.replace / re.sub of a literal: leftmost, non-overlapping.
RECURSIVE ReplaceLiteral(_, _, _, _)
ReplaceLiteral(t, i, pat, rep) ==
    LET j == FirstAt({k \in i..Len(t) : MatchAt(t, k, pat)})
    IN  IF j = 0 THEN SubSeq(t, i, Len(t))
        ELSE SubSeq(t, i, j - 1) \o rep \o ReplaceLiteral(t, j + Len(pat), pat, rep)

\* str.strip()
LastNonSpace(t) ==
    LET S == {j \in 1..Len(t) : t[j] \notin Whitespace}
    IN  IF S = {} THEN 0 ELSE CHOOSE j \in S : \A k \in S : j >= k

Strip(t) == SubSeq(t, RunEnd(t, 1, Whitespace), LastNonSpace(t))

(***************************************************************************)
(* _clean_text (lines 79-94).                                              *)
(***************************************************************************)
\* line 82: re.sub(r'\s+', ' ', text)
RECURSIVE CollapseWhitespace(_, _)
CollapseWhitespace(t, i) ==
    LET j == FirstAt({k \in i..Len(t) : t[k] \in Whitespace})
    IN  IF j = 0 THEN SubSeq(t, i, Len(t))
        ELSE SubSeq(t, i, j - 1) \o <<" ">>
             \o CollapseWhitespace(t, RunEnd(t, j, Whitespace))

\* \[\d+\] matches t at position i; the match ends at RunEnd(t, i + 1, Digits)
CitationAt(t, i) ==
    LET j == RunEnd(t, i + 1, Digits)
    IN  t[i] = "[" /\ j > i + 1 /\ j <= Len(t) /\ t[j] = "]"

\* line 85: re.sub(r'\[\d+\]', '', text)
RECURSIVE RemoveCitations(_, _)
RemoveCitations(t, i) ==
    LET j == FirstAt({k \in i..Len(t) : CitationAt(t, k)})
    IN  IF j = 0 THEN SubSeq(t, i, Len(t))
        ELSE SubSeq(t, i, j - 1)
             \o RemoveCitations(t, RunEnd(t, j + 1, Digits) + 1)

\* line 88
FixApostrophes(t) == ReplaceLiteral(t, 1, <<ACirc, Euro, TradeMark>>, <<"'">>)

\* line 89: the alternation tries the three-character form first
RECURSIVE FixQuotes(_, _)
FixQuotes(t, i) ==
    LET j == FirstAt({k \in i..Len(t) : MatchAt(t, k, <<ACirc, Euro>>)})
    IN  IF j = 0 THEN SubSeq(t, i, Len(t))
        ELSE SubSeq(t, i, j - 1) \o <<"\"">>
             \o FixQuotes(t, IF MatchAt(t, j, <<ACirc, Euro, OELig>>)
                             THEN j + 3 ELSE j + 2)

\* line 92: re.sub(r'\.{3,}', '...', text)
RECURSIVE NormalizeDots(_, _)
NormalizeDots(t, i) ==
    LET j == FirstAt({k \in i..Len(t) : MatchAt(t, k, <<".", ".", ".">>)})
    IN  IF j = 0 THEN SubSeq(t, i, Len(t))
        ELSE SubSeq(t, i, j - 1) \o <<".", ".", ".">>
             \o NormalizeDots(t, RunEnd(t, j, {"."}))

clean_text(t) ==
    LET t1 == CollapseWhitespace(t, 1)
        t2 == RemoveCitations(t1, 1)
        t3 == FixApostrophes(t2)
        t4 == FixQuotes(t3, 1)
        t5 == NormalizeDots(t4, 1)
    IN  Strip(t5)

(***************************************************************************)
(* _improved_sentence_split (lines 96-127).                                *)
(***************************************************************************)
\* lines 102-106
abbreviations ==
    << <<"M", "r">>,
       <<"M", "r", "s">>,
       <<"M", "s">>,
       <<"D", "r">>,
       <<"P", "r", "o", "f">>,
       <<"S", "r">>,
       <<"J", "r">>,
       <<"I", "n", "c">>,
       <<"L", "t", "d">>,
       <<"C", "o", "r", "p">>,
       <<"v", "s">>,
       <<"e", "t", "c">>,
       <<"i", ".", "e">>,
       <<"e", ".", "g">>,
       <<"a", ".", "m">>,
       <<"p", ".", "m">>,
       <<"P", "h", ".", "D">>,
       <<"M", ".", "D">>,
       <<"G", "o", "v">>,
       <<"S", "e", "n">>,
       <<"R", "e", "p">>,
       <<"P", "r", "e", "s">>,
       <<"V", "P">>,
       <<"C", "E", "O">>,
       <<"C", "F", "O">> >>

\* '<DOT>'
DotMark == <<"<", "D", "O", "T", ">">>

\* \b before position i of t
WordBoundary(t, i) ==
    LET before == i > 1 /\ IsWord(t[i - 1])
        after == i <= Len(t) /\ IsWord(t[i])
    IN  before # after

\* One character of the pattern built from abbr at line 110, under
\* re.IGNORECASE: abbr is put into the pattern unescaped, so a '.' in it is
\* the regular expression's any-character-but-newline.
PatternCharMatches(p, c) ==
    IF p = "." THEN c # "\n" ELSE Lower(p) = Lower(c)

\* '\b' + abbr + '\.' matches t at position i
AbbrMatchAt(t, i, abbr) ==
    /\ WordBoundary(t, i)
    /\ i + Len(abbr) <= Len(t)
    /\ \A k \in 1..Len(abbr) : PatternCharMatches(abbr[k], t[i + k - 1])
    /\ t[i + Len(abbr)] = "."

\* line 110 for one abbreviation: every match is replaced by abbr + '<DOT>'
RECURSIVE ProtectOne(_, _, _)
ProtectOne(t, i, abbr) ==
    LET j == FirstAt({k \in i..Len(t) : AbbrMatchAt(t, k, abbr)})
    IN  IF j = 0 THEN SubSeq(t, i, Len(t))
        ELSE SubSeq(t, i, j - 1) \o abbr \o DotMark
             \o ProtectOne(t, j + Len(abbr) + 1, abbr)

\* lines 109-110: the abbreviations in list order, from the n-th on (an empty
\* text has no match)
RECURSIVE ProtectFrom(_, _)
ProtectFrom(t, n) ==
    IF n > Len(abbreviations) \/ t = <<>> THEN t
    ELSE ProtectFrom(ProtectOne(t, 1, abbreviations[n]), n + 1)

\* (?<=[.!?])\s+(?=[A-Z]) matches t at position i; the match ends before
\* RunEnd(t, i, Whitespace)
BoundaryAt(t, i) ==
    /\ i > 1
    /\ t[i - 1] \in {".", "!", "?"}
    /\ t[i] \in Whitespace
    /\ RunEnd(t, i, Whitespace) <= Len(t)
    /\ t[RunEnd(t, i, Whitespace)] \in UpperAZ

\* line 114: re.split, from position i on
RECURSIVE SplitSentences(_, _)
SplitSentences(t, i) ==
    LET j == FirstAt({k \in i..Len(t) : BoundaryAt(t, k)})
    IN  IF j = 0 THEN <<SubSeq(t, i, Len(t))>>
        ELSE <<SubSeq(t, i, j - 1)>>
             \o SplitSentences(t, RunEnd(t, j, Whitespace))

\* \n\s*\n matches t at position i and ends at ParagraphBreakEnd(t, i): the
\* last newline of the whitespace run that follows position i (0 if none)
ParagraphBreakEnd(t, i) ==
    LET S == {k \in (i + 1)..(RunEnd(t, i + 1, Whitespace) - 1) : t[k] = "\n"}
    IN  IF S = {} THEN 0 ELSE CHOOSE k \in S : \A m \in S : k >= m

ParagraphBreakAt(t, i) ==
    t[i] = "\n" /\ ParagraphBreakEnd(t, i) > i

\* line 120: re.split(r'\n\s*\n', sentence), from position i on
RECURSIVE SplitParagraphs(_, _)
SplitParagraphs(t, i) ==
    LET j == FirstAt({k \in i..Len(t) : ParagraphBreakAt(t, k)})
    IN  IF j = 0 THEN <<SubSeq(t, i, Len(t))>>
        ELSE <<SubSeq(t, i, j - 1)>>
             \o SplitParagraphs(t, ParagraphBreakEnd(t, j) + 1)

\* lines 121-125 for the parts of one sentence
RECURSIVE KeepParts(_)
KeepParts(parts) ==
    IF parts = <<>> THEN <<>>
    ELSE IF Strip(Head(parts)) # <<>>
         THEN <<Strip(ReplaceLiteral(Head(parts), 1, DotMark, <<".">>))>>
              \o KeepParts(Tail(parts))
         ELSE KeepParts(Tail(parts))

\* lines 117-125
RECURSIVE CollectResult(_)
CollectResult(sents) ==
    IF sents = <<>> THEN <<>>
    ELSE KeepParts(SplitParagraphs(Head(sents), 1))
         \o CollectResult(Tail(sents))

improved_sentence_split(t) ==
    CollectResult(SplitSentences(ProtectFrom(t, 1), 1))

(***************************************************************************)
(* Character-level inputs.                                                 *)
(***************************************************************************)
MaxCleanPieces == 4
MaxSplitPieces == 4
MaxPasses == 2

RECURSIVE Flatten(_)
Flatten(ps) == IF ps = <<>> THEN <<>> ELSE Head(ps) \o Flatten(Tail(ps))

CleanPieces ==
    { <<"a">>, <<" ">>, <<"\n">>, <<".">>, <<"[">>, <<"1">>, <<"]">>,
      <<"[", "1", "]">>, <<" ", "[", "1", "]", " ">>,
      <<ACirc, Euro>>, <<TradeMark>>, <<OELig>> }

SplitPieces ==
    { <<"D", "r">>, <<"d", "r">>, <<"m", "a", "d">>, <<"G", "o">>,
      <<"a">>, <<".">>, <<"!">>, <<" ">>, <<"\n">> }

\* "Dr. Reyes works at sea. Mr. Cruz is an OFW in Dubai. Pamilya niya ay
\* masaya."
ScenarioText ==
    <<"D", "r", ".", " ", "R", "e", "y", "e", "s", " ", "w", "o">> \o
    <<"r", "k", "s", " ", "a", "t", " ", "s", "e", "a", ".", " ">> \o
    <<"M", "r", ".", " ", "C", "r", "u", "z", " ", "i", "s", " ">> \o
    <<"a", "n", " ", "O", "F", "W", " ", "i", "n", " ", "D", "u">> \o
    <<"b", "a", "i", ".", " ", "P", "a", "m", "i", "l", "y", "a">> \o
    <<" ", "n", "i", "y", "a", " ", "a", "y", " ", "m", "a", "s">> \o
    <<"a", "y", "a", ".">>

\* The texts made of up to nc pieces of CleanPieces or up to ns pieces of
\* SplitPieces, and the scenario text.
TextInputs(nc, ns) ==
    {Flatten(ps) : ps \in SeqsUpTo(CleanPieces, nc)}
    \cup {Flatten(ps) : ps \in SeqsUpTo(SplitPieces, ns)}
    \cup {ScenarioText}

(***************************************************************************)
(* The text pipeline of _smart_chunk_text (lines 136-137), with the        *)
(* normalization run up to MaxPasses times before the split.               *)
(***************************************************************************)
ChunkerIdle ==
    /\ tokenizer = Loaded
    /\ MAX_TOKENS_PER_CHUNK = 400
    /\ OVERLAP_TOKENS = 50
    /\ collection = 0
    /\ loadLog = <<Loaded>>
    /\ constructed = 1
    /\ results = <<>>
    /\ pc = "idle"
    /\ content = <<>>
    /\ sentences = <<>>
    /\ idx = 0
    /\ current_sentences = <<>>
    /\ current_tokens = 0
    /\ chunks = <<>>
    /\ metadatas = <<>>
    /\ batch_i = 0
    /\ total_added = 0

TextInit ==
    /\ ChunkerIdle
    /\ BatchIdle
    /\ raw \in TextInputs(MaxCleanPieces, MaxSplitPieces)
    /\ cleaned = <<>>
    /\ passes = 0
    /\ split_in = <<>>
    /\ split_out = <<>>
    /\ split_done = FALSE

\* _clean_text, on the raw text or on its own previous result
CleanText ==
    /\ passes < MaxPasses
    /\ ~split_done
    /\ cleaned' = clean_text(IF passes = 0 THEN raw ELSE cleaned)
    /\ passes' = passes + 1
    /\ UNCHANGED <<raw, split_in, split_out, split_done>>
    /\ UNCHANGED <<objVars, histVars, runVars, batchVars>>

\* _improved_sentence_split on the normalized text (line 137)
ImprovedSentenceSplit ==
    /\ passes >= 1
    /\ ~split_done
    /\ split_in' = cleaned
    /\ split_out' = improved_sentence_split(cleaned)
    /\ split_done' = TRUE
    /\ UNCHANGED <<raw, cleaned, passes>>
    /\ UNCHANGED <<objVars, histVars, runVars, batchVars>>

TextNext == CleanText \/ ImprovedSentenceSplit

TextSpec == TextInit /\ [][TextNext]_vars

(***************************************************************************)
(* _add_documents_in_batches (lines 242-272) called on its own: documents  *)
(* is the list of the positions 1..n (documents, metadatas and ids are     *)
(* sliced in step, so one list stands for the three), batchSize the        *)
(* batch_size argument.                                                    *)
(***************************************************************************)
MaxDocuments == 5

\* The batch_size argument: small sizes, and the default of line 242.
BatchSizes == {1, 2, 3, batch_size}

DocumentLists == {[k \in 1..n |-> k] : n \in 0..MaxDocuments}

\* documents[i:i+batch_size] (line 251)
BatchSlice(docs, i, size) ==
    SubSeq(docs, i + 1, IF i + size < Len(docs) THEN i + size ELSE Len(docs))

BatchInit ==
    /\ ChunkerIdle
    /\ TextIdle
    /\ documents \in DocumentLists
    /\ batchSize \in BatchSizes
    /\ added_log = <<>>
    /\ reported = <<>>

\* lines 244-247: total_added = 0, and the loop of line 249 is entered
AddDocumentsBegin ==
    /\ pc = "idle"
    /\ pc' = "adding"
    /\ total_added' = 0
    /\ batch_i' = 0
    /\ UNCHANGED <<content, sentences, idx, current_sentences, current_tokens,
                   chunks, metadatas>>
    /\ UNCHANGED <<objVars, histVars, textVars, batchVars>>

\* Variant: the except clause breaks out of the loop instead of continuing.
AddDocumentsBatchBreak ==
    /\ pc = "adding"
    /\ batch_i < Len(documents)
    /\ LET batch_docs == BatchSlice(documents, batch_i, batchSize)
       IN  \E ok \in BOOLEAN :
              /\ added_log' = Append(added_log, [docs |-> batch_docs, ok |-> ok])
              /\ collection' = IF ok THEN collection + Len(batch_docs) ELSE collection
              /\ total_added' = IF ok THEN total_added + Len(batch_docs) ELSE total_added
              /\ batch_i' = IF ok THEN batch_i + batchSize ELSE Len(documents)
    /\ UNCHANGED <<pc, content, sentences, idx, current_sentences, current_tokens,
                   chunks, metadatas>>
    /\ UNCHANGED <<tokenizer, MAX_TOKENS_PER_CHUNK, OVERLAP_TOKENS>>
    /\ UNCHANGED <<histVars, textVars, documents, batchSize, reported>>

\* lines 249-266, one turn of the loop: the slice is handed to
\* self.collection.add, which returns (ok) or raises; either way the loop
\* goes on with i + batch_size.
AddDocumentsBatch ==
    /\ pc = "adding"
    /\ batch_i < Len(documents)
    /\ LET batch_docs == BatchSlice(documents, batch_i, batchSize)
       IN  \E ok \in BOOLEAN :
              /\ added_log' = Append(added_log, [docs |-> batch_docs, ok |-> ok])
              /\ collection' = IF ok THEN collection + Len(batch_docs) ELSE collection
              /\ total_added' = IF ok THEN total_added + Len(batch_docs) ELSE total_added
    /\ batch_i' = batch_i + batchSize
    /\ UNCHANGED <<pc, content, sentences, idx, current_sentences, current_tokens,
                   chunks, metadatas>>
    /\ UNCHANGED <<tokenizer, MAX_TOKENS_PER_CHUNK, OVERLAP_TOKENS>>
    /\ UNCHANGED <<histVars, textVars, documents, batchSize, reported>>

\* lines 268-272: the loop is over; the totals are printed, with the warning
\* of line 272 when some documents were not added
AddDocumentsReport ==
    /\ pc = "adding"
    /\ batch_i >= Len(documents)
    /\ pc' = "returned"
    /\ reported' =
          <<[added |-> total_added, of |-> Len(documents)]>>
          \o IF total_added < Len(documents)
             THEN <<[failed |-> Len(documents) - total_added]>>
             ELSE <<>>
    /\ UNCHANGED <<content, sentences, idx, current_sentences, current_tokens,
                   chunks, metadatas, batch_i, total_added>>
    /\ UNCHANGED <<objVars, histVars, textVars, documents, batchSize, added_log>>

BatchNext ==
    \/ AddDocumentsBegin
    \/ AddDocumentsBatch
    \/ AddDocumentsReport

BatchSpec == BatchInit /\ [][BatchNext]_vars

(***************************************************************************)
(* Properties of the normalizer and the splitter (checked under TextSpec). *)
(***************************************************************************)
\* C6: normalization is idempotent: a second _clean_text leaves the result
\* of the first unchanged.
C6_CleanIdempotent ==
    passes = 2 => cleaned = clean_text(raw)

\* The elements of outs occur in t one after the other, from position from
\* on, without overlapping.
FirstMatch(t, i, pat) == FirstAt({k \in i..Len(t) : MatchAt(t, k, pat)})

RECURSIVE InOrder(_, _, _)
InOrder(t, outs, from) ==
    IF outs = <<>> THEN TRUE
    ELSE LET at == FirstMatch(t, from, Head(outs))
         IN  at > 0 /\ InOrder(t, Tail(outs), at + Len(Head(outs)))

\* C7: every element the splitter returns is a non-empty, trimmed substring
\* of the text it was given, and the elements keep their order: protecting
\* and restoring the abbreviation periods changes no character.
C7_SplitReturnsSubstrings ==
    split_done =>
    /\ \A k \in 1..Len(split_out) :
          split_out[k] # <<>> /\ Strip(split_out[k]) = split_out[k]
    /\ InOrder(split_in, split_out, 1)

\* The period at position p of t ends one of the listed abbreviations,
\* written in any case and starting at a word boundary.
EndsAbbreviation(t, p) ==
    /\ p >= 1 /\ p <= Len(t) /\ t[p] = "."
    /\ \E n \in 1..Len(abbreviations) :
          LET a == abbreviations[n]
              s == p - Len(a)
          IN  /\ s >= 1
              /\ WordBoundary(t, s)
              /\ \A k \in 1..Len(a) : Lower(t[s + k - 1]) = Lower(a[k])

\* The pieces of t cut at every '.', '!' or '?' that is followed by
\* whitespace and an uppercase letter and does not end an abbreviation.
RECURSIVE CutAtSentenceEnds(_, _)
CutAtSentenceEnds(t, i) ==
    LET j == FirstAt({k \in i..Len(t) : BoundaryAt(t, k) /\ ~EndsAbbreviation(t, k - 1)})
    IN  IF j = 0 THEN <<SubSeq(t, i, Len(t))>>
        ELSE <<SubSeq(t, i, j - 1)>>
             \o CutAtSentenceEnds(t, RunEnd(t, j, Whitespace))

Lengths(ss) == [k \in 1..Len(ss) |-> Len(ss[k])]

NonEmpty(ss) == SelectSeq(ss, LAMBDA x : x # <<>>)

\* C8: a period that ends a protected abbreviation is never a split point,
\* every other '.', '!' or '?' followed by whitespace and an uppercase letter
\* is one (the returned sentences have the lengths of the pieces cut at
\* exactly those points), and the scenario text gives exactly 3 sentences.
C8_SplitPointsExact ==
    split_done =>
    /\ Lengths(split_out) = Lengths(NonEmpty(CutAtSentenceEnds(split_in, 1)))
    /\ split_in = ScenarioText => Len(split_out) = 3


(***************************************************************************)
(* Properties of the chunk builder (checked under Spec).                   *)
(***************************************************************************)
\* The call of _smart_chunk_text whose locals the state shows is running or
\* has just returned to populate_vector_database.
InCall == pc \in {"scan", "chunked", "adding"}

Range(f) == {f[k] : k \in DOMAIN f}

\* The sentence at position p has, on its own, more tokens than a chunk may.
TooLong(p) == count_tokens(sentences[p]) > MAX_TOKENS_PER_CHUNK

\* The first sentence after position p that is not too long (0 if none).
RECURSIVE NextAccepted(_)
NextAccepted(p) ==
    IF p >= Len(sentences) THEN 0
    ELSE IF TooLong(p + 1) THEN NextAccepted(p + 1)
    ELSE p + 1

\* C1: every emitted chunk's token count, as _count_tokens measures the
\* joined text and as populate_vector_database stores it in token_count, is
\* at most MAX_TOKENS_PER_CHUNK (chunks opened by finalize-and-reseed
\* included).
C1_ChunkTokensWithinMax ==
    (MAX_TOKENS_PER_CHUNK > 0 /\ 0 <= OVERLAP_TOKENS
        /\ OVERLAP_TOKENS < MAX_TOKENS_PER_CHUNK)
    => \A k \in 1..Len(metadatas) :
          metadatas[k].token_count <= MAX_TOKENS_PER_CHUNK

\* C2: chunk k+1 begins with exactly the overlap seed computed from chunk
\* k's finalized buffer, in the same order, followed by the sentence that
\* triggered finalizing chunk k.
C2_NextChunkStartsWithSeed ==
    InCall =>
    \A k \in 1..(Len(chunks) - 1) :
        LET seed == OverlapSeed(sentences, chunks[k]).sentences
            n == Len(seed)
        IN  /\ Len(chunks[k + 1]) > n
            /\ SubSeq(chunks[k + 1], 1, n) = seed
            /\ chunks[k + 1][n + 1] = NextAccepted(chunks[k][Len(chunks[k])])

C2_Witness ==
    /\ pc = "chunked"
    /\ Len(chunks) >= 2
    /\ Len(OverlapSeed(sentences, chunks[1]).sentences) >= 1
    /\ \E p \in 1..Len(sentences) : TooLong(p)

\* C3: with OVERLAP_TOKENS = 0, in either tokenizer mode, no sentence
\* occurrence appears in two consecutive chunks: every overlap seed is empty.
C3_NoSharedSentenceWithoutOverlap ==
    (InCall /\ OVERLAP_TOKENS = 0) =>
    \A k \in 1..(Len(chunks) - 1) :
        /\ Range(chunks[k]) \cap Range(chunks[k + 1]) = {}
        /\ OverlapSeed(sentences, chunks[k]).sentences = <<>>

\* C4: a sentence whose own token count exceeds MAX_TOKENS_PER_CHUNK is never
\* in the buffer nor in an emitted chunk; skipping it does not stop the scan
\* (the loop always has a next step and, at the return, every other sentence
\* is in some chunk); a document with no sentence or only oversized ones
\* yields no chunk.
C4_OversizedDroppedScanContinues ==
    InCall =>
    /\ \A p \in Range(current_sentences) : ~TooLong(p)
    /\ \A k \in 1..Len(chunks) : \A p \in Range(chunks[k]) :
          ~TooLong(p)
    /\ pc = "scan" =>
          ENABLED (SkipSentence \/ FinalizeAndReseed \/ AppendSentence \/ ReturnChunks)
    /\ pc = "chunked" =>
          /\ \A p \in 1..Len(sentences) :
                TooLong(p) \/ \E k \in 1..Len(chunks) : p \in Range(chunks[k])
          /\ (\A p \in 1..Len(sentences) : TooLong(p))
                => chunks = <<>>

C4_Witness ==
    /\ pc = "chunked"
    /\ Len(sentences) >= 2
    /\ \A p \in 1..Len(sentences) : TooLong(p)
    /\ chunks = <<>>
    /\ idx = Len(sentences) + 1

\* C5: five sentences of 100 tokens, max 250, overlap 100: the chunks are
\* sentences 1-2, 2-3, 3-4, 4-5.
C5_FiveSentenceScenario ==
    ( /\ pc = "chunked"
      /\ sentences = FiveHundreds
      /\ MAX_TOKENS_PER_CHUNK = 250
      /\ OVERLAP_TOKENS = 100 )
    => chunks = << <<1, 2>>, <<2, 3>>, <<3, 4>>, <<4, 5>> >>

C5_Witness ==
    /\ pc = "chunked"
    /\ sentences = FiveHundreds
    /\ MAX_TOKENS_PER_CHUNK = 250
    /\ OVERLAP_TOKENS = 100
    /\ \A p \in 1..5 : count_tokens(sentences[p]) = 100
    /\ Len(chunks) = 4

ChunkTexts(cs) == [k \in 1..Len(cs) |-> [j \in 1..Len(cs[k]) |-> content[cs[k][j]]]]

\* C10 as stated: two runs of _smart_chunk_text on the same text with the
\* same MAX_TOKENS_PER_CHUNK and OVERLAP_TOKENS give the same chunk sequence.
C10_SameInputSameChunks ==
    \A a, b \in 1..Len(results) :
        ChunkTexts(results[a].chunks) = ChunkTexts(results[b].chunks)

\* C10 as amended: ... and with the tokenizer in the same mode.
C10_SameInputAndModeSameChunks ==
    \A a, b \in 1..Len(results) :
        results[a].tokenizer = results[b].tokenizer
        => results[a].chunks = results[b].chunks

C10_Witness ==
    /\ Len(results) = 2
    /\ results[1].tokenizer = results[2].tokenizer
    /\ Len(results[2].chunks) >= 2
    /\ constructed = 2

(***************************************************************************)
(* Properties of _add_documents_in_batches (checked under BatchSpec).      *)
(***************************************************************************)
\* The documents handed to self.collection.add so far, in call order.
RECURSIVE LogDocs(_)
LogDocs(log) ==
    IF log = <<>> THEN <<>> ELSE Head(log).docs \o LogDocs(Tail(log))

\* The number of documents in the batches of log whose outcome is ok.
RECURSIVE DocsWithOutcome(_, _)
DocsWithOutcome(log, ok) ==
    IF log = <<>> THEN 0
    ELSE (IF Head(log).ok = ok THEN Len(Head(log).docs) ELSE 0)
         + DocsWithOutcome(Tail(log), ok)

\* C11: for any pattern of failing batches, the documents are submitted
\* exactly once each, in input order, in batches of at most batch_size; a
\* failing batch does not stop the later ones (at the return every document
\* has been submitted); total_added is the number of documents in the
\* batches that succeeded, and len(documents) - total_added, the number
\* the warning reports, is the number of documents in the failed batches.
C11_EveryDocumentSubmittedOnce ==
    /\ LogDocs(added_log)
         = SubSeq(documents, 1,
                  IF batch_i < Len(documents) THEN batch_i ELSE Len(documents))
    /\ \A k \in 1..Len(added_log) :
          /\ added_log[k].docs # <<>>
          /\ Len(added_log[k].docs) <= batchSize
    /\ pc \in {"adding", "returned"}
          => total_added = DocsWithOutcome(added_log, TRUE)
    /\ pc = "returned" =>
          /\ LogDocs(added_log) = documents
          /\ reported[1].added = DocsWithOutcome(added_log, TRUE)
          /\ reported[1].of = Len(documents)
          /\ Len(documents) - reported[1].added = DocsWithOutcome(added_log, FALSE)
          /\ IF DocsWithOutcome(added_log, FALSE) > 0
             THEN /\ Len(reported) = 2
                  /\ reported[2].failed = DocsWithOutcome(added_log, FALSE)
             ELSE Len(reported) = 1

\* A call that has returned after three or more batches, one of which failed
\* before a later one succeeded, the last being shorter than batch_size.
C11_Witness ==
    /\ pc = "returned"
    /\ Len(added_log) >= 3
    /\ \E j, k \in 1..Len(added_log) :
          j < k /\ ~added_log[j].ok /\ added_log[k].ok
    /\ Len(added_log[Len(added_log)].docs) < batchSize
    /\ Len(reported) = 2

(***************************************************************************)
(* Properties of the scan of _smart_chunk_text (checked under Spec).       *)
(***************************************************************************)
\* The sum of the token counts of the last n sentences of buf.
RECURSIVE SuffixTokens(_, _)
SuffixTokens(buf, n) ==
    IF n = 0 THEN 0
    ELSE count_tokens(sentences[buf[Len(buf) - n + 1]]) + SuffixTokens(buf, n - 1)

\* The longest suffix of buf whose token counts sum to at most budget.
LongestSuffixWithin(buf, budget) ==
    LET fits == {n \in 0..Len(buf) : SuffixTokens(buf, n) <= budget}
        n == CHOOSE m \in fits : \A o \in fits : m >= o
    IN  SubSeq(buf, Len(buf) - n + 1, Len(buf))

\* The step is a finalize-and-reseed: a chunk is emitted and the scan goes on.
FinalizeStep ==
    pc = "scan" /\ pc' = "scan" /\ Len(chunks') = Len(chunks) + 1

\* C12: at every finalize the overlap seed (the new buffer without the
\* sentence that triggered the finalize) is the longest contiguous suffix
\* of the just-finalized buffer whose token counts sum to at most
\* OVERLAP_TOKENS, in the buffer's order; when it is not the whole buffer,
\* the sentence just before it would push the sum over the budget.
C12_SeedIsLongestSuffix ==
    [][FinalizeStep =>
        LET buf == chunks'[Len(chunks')]
            seed == SubSeq(current_sentences', 1, Len(current_sentences') - 1)
        IN  /\ buf = current_sentences
            /\ seed = LongestSuffixWithin(buf, OVERLAP_TOKENS)
            /\ Len(seed) < Len(buf) =>
                  SuffixTokens(buf, Len(seed) + 1) > OVERLAP_TOKENS
            /\ current_tokens' = SuffixTokens(buf, Len(seed))
                                 + count_tokens(sentences[idx])]_vars

\* Just after a finalize whose seed is neither empty nor the whole buffer:
\* the walk took a sentence and stopped at the one before it.
C12_Witness ==
    /\ pc = "scan"
    /\ chunks # <<>>
    /\ Len(current_sentences) >= 2
    /\ current_sentences
         = LongestSuffixWithin(chunks[Len(chunks)], OVERLAP_TOKENS) \o <<idx - 1>>
    /\ Len(current_sentences) - 1 < Len(chunks[Len(chunks)])

\* The positions up to n of the sentences that are not too long, in order.
RECURSIVE AcceptedUpTo(_)
AcceptedUpTo(n) ==
    IF n = 0 THEN <<>>
    ELSE IF TooLong(n) THEN AcceptedUpTo(n - 1)
    ELSE Append(AcceptedUpTo(n - 1), n)

\* buf without the overlap seed taken from prev, the buffer finalized just
\* before it (<<>> if there is none).
WithoutSeed(prev, buf) ==
    SubSeq(buf, Len(LongestSuffixWithin(prev, OVERLAP_TOKENS)) + 1, Len(buf))

\* The chunks cs one after the other, each without its leading overlap seed.
RECURSIVE NewSentences(_, _)
NewSentences(cs, k) ==
    IF k = 0 THEN <<>>
    ELSE NewSentences(cs, k - 1)
         \o WithoutSeed(IF k = 1 THEN <<>> ELSE cs[k - 1], cs[k])

\* C13: no sentence that is not oversized is lost or reordered: the emitted
\* chunks, each without its leading overlap seed, concatenate to exactly the
\* sentences whose token count is at most MAX_TOKENS_PER_CHUNK, in input
\* order, each once; every chunk brings at least one new sentence, so there
\* are at most as many chunks as such sentences.  During the scan the same
\* holds of the chunks so far with the buffer and the sentences scanned so far.
C13_NoSentenceLostOrReordered ==
    /\ pc \in {"chunked", "adding"} =>
          /\ NewSentences(chunks, Len(chunks)) = AcceptedUpTo(Len(sentences))
          /\ \A k \in 1..Len(chunks) :
                WithoutSeed(IF k = 1 THEN <<>> ELSE chunks[k - 1], chunks[k]) # <<>>
          /\ Len(chunks) <= Len(AcceptedUpTo(Len(sentences)))
    /\ pc = "scan" =>
          NewSentences(chunks, Len(chunks))
             \o WithoutSeed(IF chunks = <<>> THEN <<>> ELSE chunks[Len(chunks)],
                            current_sentences)
          = AcceptedUpTo(idx - 1)

\* A returned call with an oversized sentence in the input, a chunk that
\* starts with a non-empty seed, and as many chunks as accepted sentences.
C13_Witness ==
    /\ pc = "chunked"
    /\ Len(chunks) >= 2
    /\ \E p \in 1..Len(sentences) : TooLong(p)
    /\ \E k \in 2..Len(chunks) :
          LongestSuffixWithin(chunks[k - 1], OVERLAP_TOKENS) # <<>>
    /\ Len(chunks) = Len(AcceptedUpTo(Len(sentences)))

\* current_tokens is the sum of the token counts of the buffer's sentences,
\* and no emitted chunk is empty.
RunningSumHolds ==
    /\ pc = "scan" =>
          current_tokens = SuffixTokens(current_sentences, Len(current_sentences))
    /\ InCall => \A k \in 1..Len(chunks) : chunks[k] # <<>>

\* C14: after every step of the scan current_tokens equals the sum of the
\* token counts of the sentences in current_sentences; a chunk is finalized
\* before the end of the input only when the buffer is non-empty and
\* current_tokens plus the token count of the next accepted sentence exceeds
\* MAX_TOKENS_PER_CHUNK; so every emitted chunk holds at least one sentence.
C14_RunningSumAndFinalizeGuard ==
    /\ []RunningSumHolds
    /\ [][FinalizeStep =>
            /\ current_sentences # <<>>
            /\ ~TooLong(idx)
            /\ current_tokens + count_tokens(sentences[idx]) > MAX_TOKENS_PER_CHUNK
            /\ current_tokens = SuffixTokens(current_sentences, Len(current_sentences))
         ]_vars

\* Mid-scan, after a finalize: the buffer holds a seed and the triggering
\* sentence, and the seed's tokens are part of current_tokens.
C14_Witness ==
    /\ pc = "scan"
    /\ idx <= Len(sentences)
    /\ chunks # <<>>
    /\ Len(current_sentences) >= 2
    /\ current_sentences[Len(current_sentences)] = idx - 1
    /\ current_tokens > count_tokens(sentences[idx - 1])
    /\ current_tokens = SuffixTokens(current_sentences, Len(current_sentences))

====
